---- MODULE Spec2Model ----
(***************************************************************************)
(* Model of the Interviewly backend: the pricing / quota services          *)
(* (plan_service.py, quota_service.py, routes/pricing.py) and the          *)
(* interview session routes (routes/interview.py,                          *)
(* routes/conversational_interview.py).                                    *)
(*                                                                         *)
(* Every request handler is one action.  Time is a day counter `now`; a    *)
(* handler reads the clock once.  `resp` records the outcome of the last   *)
(* request.  Tables without a uniqueness constraint are bags of rows.      *)
(***************************************************************************)
EXTENDS Integers, FiniteSets, Sequences, Bags, TLC

VARIABLES
    now,                  \* datetime.utcnow(), in days
    pricing_plans,        \* table pricing_plans (PricingPlan rows)
    plan_features,        \* table plan_features (PlanFeature rows)
    subscriptions,        \* table subscriptions (Subscription rows)
    user_feature_usage,   \* table user_feature_usage (UserFeatureUsage rows)
    interview_sessions,   \* table interview_sessions
    interview_questions,  \* table interview_questions
    interview_answers,    \* table interview_answers
    active_interviews,    \* conversational agents held in process memory
    jobs,                 \* table jobs (Job rows)
    candidates,           \* table candidates (Candidate rows)
    applications,         \* table applications (Application rows)
    screenings,           \* table screenings (Screening rows)
    report_call,          \* the report request in progress, if any
    cv_analyses,          \* table cv_analyses (CVAnalysis rows)
    upload_call,          \* the CV upload request in progress, if any
    usage_calls,          \* the overlapping quota requests, one entry each
    answer_calls,         \* the overlapping submit_answer requests
    voice_agent,          \* the voice agent's job: its locals and its tasks
    voice_posts,          \* transcript POSTs of the agent not yet handled
    resp                  \* outcome of the last request

vars == <<now, pricing_plans, plan_features, subscriptions, user_feature_usage,
          interview_sessions, interview_questions, interview_answers,
          active_interviews, jobs, candidates, applications, screenings,
          report_call, cv_analyses, upload_call, usage_calls,
          answer_calls, voice_agent, voice_posts, resp>>

quotaVars == <<now, pricing_plans, plan_features, subscriptions,
               user_feature_usage>>
interviewVars == <<interview_sessions, interview_questions,
                   interview_answers, active_interviews>>
atsVars == <<jobs, candidates, applications, screenings>>
cvVars == <<cv_analyses, upload_call>>
voiceVars == <<voice_agent, voice_posts>>

\* what the handlers of one part of the backend leave alone
nonQuotaVars == <<interviewVars, atsVars, report_call, cvVars, usage_calls,
                  answer_calls, voiceVars>>
nonInterviewVars == <<quotaVars, atsVars, report_call, cvVars, usage_calls,
                  answer_calls, voiceVars>>
nonAtsVars == <<quotaVars, interviewVars, report_call, cvVars, usage_calls,
                  answer_calls, voiceVars>>
nonReportVars == <<quotaVars, atsVars, cvVars, usage_calls, answer_calls,
                   voiceVars>>
nonCvVars == <<quotaVars, interviewVars, atsVars, report_call, usage_calls,
               answer_calls, voiceVars>>

(***************************************************************************)
(* Bounds                                                                  *)
(***************************************************************************)
MaxQuota == 2        \* largest configured monthly_quota drawn in Init
MaxUsed == 3         \* cap on used_count for soft-capped features
MaxNow == 40         \* the clock stops here
MaxRows == 2         \* cap on the number of user_feature_usage rows
TickStep == 20       \* days the clock advances in one step
DaysInMonth == 31    \* length of a calendar month

None == -1           \* Python None / SQL NULL for integer columns
NoRow == [id |-> 0]  \* result of .first() on an empty query

Users == {"u1", "u2"}
QuotaUsers == {"u1"}  \* the users acting in the quota specification
FeatureCodes == {"cv_generate", "mock_interview"}
MaxRequests == 3
Requests == 1..MaxRequests  \* the quota requests that may overlap
MaxAnswerRequests == 2
AnswerRequests == 1..MaxAnswerRequests  \* the submit_answer requests that may overlap

(***************************************************************************)
(* Seeded pricing tables                                                   *)
(***************************************************************************)
PricingPlans ==
    { [id |-> 1, code |-> "free", is_active |-> TRUE],
      [id |-> 2, code |-> "pro", is_active |-> TRUE] }

PlanPrices ==
    { [plan_id |-> 1, billing_period |-> "monthly", price_cents |-> 0, trial_days |-> 0],
      [plan_id |-> 1, billing_period |-> "yearly", price_cents |-> 0, trial_days |-> 0],
      [plan_id |-> 2, billing_period |-> "monthly", price_cents |-> 999, trial_days |-> 0],
      [plan_id |-> 2, billing_period |-> "yearly", price_cents |-> 9990, trial_days |-> 0] }

MonthlyDays == 30
YearlyDays == 365
NextMonthDays == 32

\* the plan codes and billing periods a subscribe request may carry
RequestPlanCodes == {"free", "pro", "enterprise"}
RequestBillingPeriods == {"monthly", "yearly", "weekly"}

\* a plan_features row for one (plan, feature): absent, unlimited, or a quota
FeatureConfigs ==
    {NoRow, [id |-> 1, monthly_quota |-> None, hard_cap |-> TRUE]}
    \cup { [id |-> 1, monthly_quota |-> q, hard_cap |-> h] :
             q \in 0..MaxQuota, h \in BOOLEAN }

FirstOf(S) == IF S = {} THEN {NoRow} ELSE S

(***************************************************************************)
(* PlanService                                                             *)
(***************************************************************************)
get_plan_by_code(code) ==
    FirstOf({p \in pricing_plans : p.code = code /\ p.is_active})

get_user_subscription(user_id) ==
    FirstOf({s \in subscriptions : s.user_id = user_id /\ s.status = "ACTIVE"})

PlanOf(subscription) ==
    FirstOf({p \in pricing_plans : p.id = subscription.plan_id})

\* (variant: the status of the subscription is not looked at)
get_user_plan_any_status(user_id) ==
    LET viaSub == UNION { PlanOf(s) \ {NoRow} :
                            s \in {x \in subscriptions : x.user_id = user_id} }
    IN  IF viaSub # {} THEN viaSub
        ELSE {p \in pricing_plans : p.code = "free" /\ p.is_active}

\* the set of plans get_user_plan may return; {} when it raises ValueError
get_user_plan(user_id) ==
    LET viaSub == UNION { PlanOf(s) \ {NoRow} :
                            s \in get_user_subscription(user_id) \ {NoRow} }
    IN  IF viaSub # {} THEN viaSub
        ELSE {p \in pricing_plans : p.code = "free" /\ p.is_active}

get_plan_feature(plan_id, feature_code) == plan_features[<<plan_id, feature_code>>]

_calculate_period_end(billing_period) ==
    IF billing_period = "yearly" THEN now + YearlyDays ELSE now + MonthlyDays

MonthStart(t) == (t \div DaysInMonth) * DaysInMonth

\* the billing period the quota code uses for a user, given the result of
\* get_user_subscription: <<period_start, period_end>>
BillingPeriod(subscription) ==
    IF subscription # NoRow
    THEN <<subscription.current_period_start, subscription.current_period_end>>
    ELSE <<MonthStart(now), MonthStart(MonthStart(now) + NextMonthDays)>>

UsageRows(user_id, plan_id, feature_code, period) ==
    {u \in BagToSet(user_feature_usage) :
        /\ u.user_id = user_id
        /\ u.plan_id = plan_id
        /\ u.feature_code = feature_code
        /\ u.period_start = period[1]
        /\ u.period_end = period[2]}

MkResp(op, who, arg, result, detail) ==
    [op |-> op, who |-> who, arg |-> arg, result |-> result, detail |-> detail]

NoDetail == [limit |-> None, used |-> None]

(***************************************************************************)
(* Initial state: an empty database apart from the pricing tables.  The    *)
(* free plan's cv_generate row is any configuration the schema allows; the *)
(* other rows are hard-capped, as the seeded ones are.                     *)
(***************************************************************************)
SeededFeature(plan_id, feature_code) ==
    IF plan_id = 1 /\ feature_code = "mock_interview"
    THEN [id |-> 1, monthly_quota |-> 1, hard_cap |-> TRUE]
    ELSE [id |-> 1, monthly_quota |-> MaxQuota, hard_cap |-> TRUE]

QuotaInit ==
    /\ now = 0
    /\ pricing_plans = PricingPlans
    /\ \E free \in FeatureConfigs :
          plan_features =
            [k \in {1, 2} \X FeatureCodes |->
                IF k = <<1, "cv_generate">> THEN free
                ELSE SeededFeature(k[1], k[2])]
    /\ subscriptions = {}
    /\ user_feature_usage = EmptyBag
    /\ resp = MkResp("none", "none", "none", "none", NoDetail)

InterviewIdle ==
    /\ interview_sessions = {}
    /\ interview_questions = {}
    /\ interview_answers = << >>
    /\ active_interviews = << >>
    /\ report_call = [pc |-> "idle"]

AtsIdle ==
    /\ jobs = {}
    /\ candidates = {}
    /\ applications = {}
    /\ screenings = {}

CvIdle ==
    /\ cv_analyses = {}
    /\ upload_call = [pc |-> "idle", id |-> 0, created |-> 0]

UsageIdle == usage_calls = [r \in Requests |-> [pc |-> "idle"]]

AnswerIdle == answer_calls = [r \in AnswerRequests |-> [pc |-> "idle"]]

VoiceIdle ==
    /\ voice_agent = [joined |-> FALSE]
    /\ voice_posts = {}

(***************************************************************************)
(* The clock                                                               *)
(***************************************************************************)
Tick ==
    /\ now + TickStep <= MaxNow
    /\ now' = now + TickStep
    /\ UNCHANGED <<pricing_plans, plan_features, subscriptions,
                 user_feature_usage, resp>>
    /\ UNCHANGED nonQuotaVars

(***************************************************************************)
(* QuotaService.check_and_increment_usage                                  *)
(***************************************************************************)
\* (variant: the NULL quota is not recognised as unlimited)
feature_unlimited_norow_only(feature) == feature = NoRow

\* "if not feature: return True" and "if feature.monthly_quota is None"
feature_unlimited(feature) ==
    feature = NoRow \/ feature.monthly_quota = None

\* (variant: the quota 0 is not recognised as disabled)
feature_disabled_never(feature) == FALSE

\* "if feature.monthly_quota == 0"
feature_disabled(feature) == feature.monthly_quota = 0

\* (variant: the limit is only reached one use later)
quota_reached_gt(used_count, monthly_quota) == used_count > monthly_quota

\* "if usage.used_count >= feature.monthly_quota"
quota_reached(used_count, monthly_quota) == used_count >= monthly_quota

\* (variant: the soft cap blocks as the hard cap does)
raises_at_limit_always(feature) == TRUE

\* "if feature.hard_cap: raise" (the soft cap only prints a warning)
raises_at_limit(feature) == feature.hard_cap

check_and_increment_usage(user_id, feature_code) ==
    \E plan \in get_user_plan(user_id) :
      LET feature == get_plan_feature(plan.id, feature_code)
          op == "check_and_increment_usage"
      IN
      IF feature_unlimited(feature)
      THEN /\ resp' = MkResp(op, user_id, feature_code, "True", NoDetail)
           /\ UNCHANGED user_feature_usage
      ELSE IF feature_disabled(feature)
      THEN /\ resp' = MkResp(op, user_id, feature_code, "QuotaExceededError",
                             [limit |-> 0, used |-> 0])
           /\ UNCHANGED user_feature_usage
      ELSE
        \E subscription \in get_user_subscription(user_id) :
          LET period == BillingPeriod(subscription)
              matching == UsageRows(user_id, plan.id, feature_code, period)
          IN
          \E found \in FirstOf(matching) :
            LET usage == IF found # NoRow THEN found
                         ELSE [user_id |-> user_id,
                              plan_id |-> plan.id,
                              feature_code |-> feature_code,
                              period_start |-> period[1],
                              period_end |-> period[2],
                              used_count |-> 0]
            IN
            /\ found = NoRow => BagCardinality(user_feature_usage) < MaxRows
            /\ IF /\ quota_reached(usage.used_count, feature.monthly_quota)
                  /\ raises_at_limit(feature)
               THEN /\ resp' = MkResp(op, user_id, feature_code, "QuotaExceededError",
                                      [limit |-> feature.monthly_quota,
                                       used |-> usage.used_count])
                    /\ UNCHANGED user_feature_usage
               ELSE /\ usage.used_count < MaxUsed
                    /\ user_feature_usage' =
                          (user_feature_usage (-) SetToBag({found} \ {NoRow}))
                          (+) SetToBag({[usage EXCEPT !.used_count = @ + 1]})
                    /\ resp' = MkResp(op, user_id, feature_code, "True",
                                      [limit |-> feature.monthly_quota,
                                       used |-> usage.used_count])

CheckAndIncrementUsage ==
    /\ \E user_id \in QuotaUsers, feature_code \in FeatureCodes :
          check_and_increment_usage(user_id, feature_code)
    /\ UNCHANGED <<now, pricing_plans, plan_features, subscriptions>>
    /\ UNCHANGED nonQuotaVars

(***************************************************************************)
(* QuotaService.check_and_increment_usage, statement by statement, for     *)
(* requests that overlap.  Each request runs in its own session: its       *)
(* SELECT sees the rows committed so far, the row it adds is invisible to  *)
(* the others until db.commit(), and the UPDATE for "used_count += 1" is   *)
(* sent with the commit.  Rows carry the primary key `id` here, since the  *)
(* UPDATE addresses the row by it.                                         *)
(***************************************************************************)
\* (variant: the increment is computed by the database on the stored value)
written_count_in_place(read_count, stored_count) == stored_count + 1

\* "usage.used_count += 1": the value read by this session, plus one
written_count(read_count, stored_count) == read_count + 1

UsageDone(call, result) ==
    [pc |-> "done", user_id |-> call.user_id, plan_id |-> call.plan_id,
     feature_code |-> call.feature_code, period |-> call.period,
     read_count |-> call.read_count, result |-> result]

\* the request up to the quota test: plan, feature, period and usage row
UsageBegin ==
    /\ \E r \in Requests, user_id \in QuotaUsers, feature_code \in FeatureCodes :
         /\ usage_calls[r].pc = "idle"
         /\ \E plan \in get_user_plan(user_id) :
              LET feature == get_plan_feature(plan.id, feature_code)
                  op == "check_and_increment_usage"
                  call == [user_id |-> user_id, plan_id |-> plan.id,
                           feature_code |-> feature_code,
                           period |-> <<None, None>>, read_count |-> 0]
              IN
              IF feature_unlimited(feature)
              THEN /\ usage_calls' = [usage_calls EXCEPT ![r] = UsageDone(call, "True")]
                   /\ resp' = MkResp(op, user_id, feature_code, "True", NoDetail)
              ELSE IF feature_disabled(feature)
              THEN /\ usage_calls' = [usage_calls EXCEPT
                                         ![r] = UsageDone(call, "QuotaExceededError")]
                   /\ resp' = MkResp(op, user_id, feature_code, "QuotaExceededError",
                                     [limit |-> 0, used |-> 0])
              ELSE
                \E subscription \in get_user_subscription(user_id) :
                  LET period == BillingPeriod(subscription)
                      matching == UsageRows(user_id, plan.id, feature_code, period)
                  IN
                  \E found \in FirstOf(matching) :
                    LET used_count == IF found # NoRow THEN found.used_count ELSE 0
                        read == [call EXCEPT !.period = period,
                                             !.read_count = used_count]
                    IN
                    IF /\ quota_reached(used_count, feature.monthly_quota)
                       /\ raises_at_limit(feature)
                    THEN /\ usage_calls' =
                              [usage_calls EXCEPT
                                  ![r] = UsageDone(read, "QuotaExceededError")]
                         /\ resp' = MkResp(op, user_id, feature_code,
                                           "QuotaExceededError",
                                           [limit |-> feature.monthly_quota,
                                            used |-> used_count])
                    ELSE /\ usage_calls' =
                              [usage_calls EXCEPT
                                  ![r] = [pc |-> "commit",
                                          user_id |-> user_id,
                                          plan_id |-> plan.id,
                                          feature_code |-> feature_code,
                                          period |-> period,
                                          read_count |-> used_count,
                                          limit |-> feature.monthly_quota,
                                          row_id |-> found.id]]
                         /\ UNCHANGED resp
    /\ UNCHANGED <<now, pricing_plans, plan_features, subscriptions,
                   user_feature_usage>>
    /\ UNCHANGED <<interviewVars, atsVars, report_call, cvVars, answer_calls,
                   voiceVars>>

\* "usage.used_count += 1; db.commit(); return True": the new row is
\* inserted, or the row read earlier is overwritten
UsageCommit ==
    /\ \E r \in Requests :
         LET call == usage_calls[r]
             rows == BagToSet(user_feature_usage)
         IN
         /\ call.pc = "commit"
         /\ IF call.row_id = NoRow.id
            THEN user_feature_usage' =
                   user_feature_usage (+)
                   SetToBag({[id |-> Cardinality(rows) + 1,
                              user_id |-> call.user_id,
                              plan_id |-> call.plan_id,
                              feature_code |-> call.feature_code,
                              period_start |-> call.period[1],
                              period_end |-> call.period[2],
                              used_count |-> written_count(call.read_count, 0)]})
            ELSE \E stored \in {u \in rows : u.id = call.row_id} :
                   user_feature_usage' =
                     (user_feature_usage (-) SetToBag({stored}))
                     (+) SetToBag({[stored EXCEPT
                            !.used_count =
                               written_count(call.read_count, stored.used_count)]})
         /\ usage_calls' = [usage_calls EXCEPT ![r] = UsageDone(call, "True")]
         /\ resp' = MkResp("check_and_increment_usage", call.user_id,
                           call.feature_code, "True",
                           [limit |-> call.limit, used |-> call.read_count])
    /\ UNCHANGED <<now, pricing_plans, plan_features, subscriptions>>
    /\ UNCHANGED <<interviewVars, atsVars, report_call, cvVars, answer_calls,
                   voiceVars>>


(***************************************************************************)
(* QuotaService.can_use_feature                                            *)
(***************************************************************************)
\* (variant: the limit only blocks one use later)
can_use_blocked_gt(used, feature) ==
    used > feature.monthly_quota /\ feature.hard_cap

\* "if used >= feature.monthly_quota: if feature.hard_cap: return False"
can_use_blocked(used, feature) ==
    used >= feature.monthly_quota /\ feature.hard_cap

\* the answer is recorded together with the time it was given at
can_use_feature(user_id, feature_code) ==
    LET op == "can_use_feature"
        at == [at |-> now]
    IN
    \E plan \in get_user_plan(user_id) :
      LET feature == get_plan_feature(plan.id, feature_code) IN
      IF feature = NoRow
      THEN resp' = MkResp(op, user_id, feature_code, "True", at)
      ELSE IF feature.monthly_quota = None
      THEN resp' = MkResp(op, user_id, feature_code, "True", at)
      ELSE IF feature.monthly_quota = 0
      THEN resp' = MkResp(op, user_id, feature_code, "False", at)
      ELSE
        \E subscription \in get_user_subscription(user_id) :
          \E usage \in FirstOf(UsageRows(user_id, plan.id, feature_code,
                                         BillingPeriod(subscription))) :
            LET used == IF usage # NoRow THEN usage.used_count ELSE 0
            IN  resp' = MkResp(op, user_id, feature_code,
                               IF can_use_blocked(used, feature)
                               THEN "False" ELSE "True",
                               at)

CanUseFeature ==
    /\ \E user_id \in QuotaUsers, feature_code \in FeatureCodes :
          can_use_feature(user_id, feature_code)
    /\ UNCHANGED quotaVars
    /\ UNCHANGED nonQuotaVars

(***************************************************************************)
(* QuotaService.get_usage_stats                                            *)
(***************************************************************************)
\* feature_code -> the "used" figure reported for each feature of the plan;
\* the usage query is by user and period only (no plan_id filter)
get_usage_stats(user_id, plan, period) ==
    LET usages == {u \in BagToSet(user_feature_usage) :
                      /\ u.user_id = user_id
                      /\ u.period_start = period[1]
                      /\ u.period_end = period[2]}
        all_features == {f \in FeatureCodes : get_plan_feature(plan.id, f) # NoRow}
    IN  { stats \in [all_features -> 0..MaxUsed] :
            \A f \in all_features :
               LET of_f == {u \in usages : u.feature_code = f}
               IN  IF of_f = {} THEN stats[f] = 0
                   ELSE \E u \in of_f : stats[f] = u.used_count }

GetUsageStats ==
    /\ \E user_id \in QuotaUsers :
         \E plan \in get_user_plan(user_id) :
           \E subscription \in get_user_subscription(user_id) :
             \E stats \in get_usage_stats(user_id, plan, BillingPeriod(subscription)) :
                resp' = MkResp("get_usage_stats", user_id, plan.code, "200", stats)
    /\ UNCHANGED quotaVars
    /\ UNCHANGED nonQuotaVars

(***************************************************************************)
(* QuotaService.reset_usage_for_period                                     *)
(***************************************************************************)
reset_usage_for_period(user_id) ==
    \E subscription \in get_user_subscription(user_id) :
       IF subscription = NoRow
       THEN UNCHANGED user_feature_usage
       ELSE LET kept == {u \in BagToSet(user_feature_usage) :
                            ~(u.user_id = user_id /\ u.period_end < now)}
            IN  user_feature_usage' = [u \in kept |-> user_feature_usage[u]]

ResetUsageForPeriod ==
    /\ \E user_id \in QuotaUsers :
          /\ reset_usage_for_period(user_id)
          /\ resp' = MkResp("reset_usage_for_period", user_id, "none", "None", NoDetail)
    /\ UNCHANGED <<now, pricing_plans, plan_features, subscriptions>>
    /\ UNCHANGED nonQuotaVars

(***************************************************************************)
(* PlanService.create_subscription and POST /pricing/user/subscribe        *)
(***************************************************************************)
\* (variant: the update of an existing row keeps its billing_period)
create_subscription_keeps_period(user_id, plan, billing_period, trial_days) ==
    \E existing \in FirstOf({s \in subscriptions : s.user_id = user_id}) :
       IF existing # NoRow
       THEN subscriptions' =
               (subscriptions \ {existing}) \cup
               {[existing EXCEPT
                    !.plan_id = plan.id,
                    !.status = "ACTIVE",
                    !.current_period_start = now,
                    !.current_period_end = _calculate_period_end(billing_period)]}
       ELSE subscriptions' =
               subscriptions \cup
               {[user_id |-> user_id,
                 plan_id |-> plan.id,
                 billing_period |-> billing_period,
                 status |-> "ACTIVE",
                 current_period_start |-> now,
                 current_period_end |-> _calculate_period_end(billing_period),
                 trial_ends_at |-> None]}

create_subscription(user_id, plan, billing_period, trial_days) ==
    \E existing \in FirstOf({s \in subscriptions : s.user_id = user_id}) :
       IF existing # NoRow
       THEN subscriptions' =
               (subscriptions \ {existing}) \cup
               {[existing EXCEPT
                    !.plan_id = plan.id,
                    !.billing_period = billing_period,
                    !.status = "ACTIVE",
                    !.current_period_start = now,
                    !.current_period_end = _calculate_period_end(billing_period),
                    !.trial_ends_at = IF trial_days > 0 THEN now + trial_days ELSE @]}
       ELSE subscriptions' =
               subscriptions \cup
               {[user_id |-> user_id,
                 plan_id |-> plan.id,
                 billing_period |-> billing_period,
                 status |-> "ACTIVE",
                 current_period_start |-> now,
                 current_period_end |-> _calculate_period_end(billing_period),
                 trial_ends_at |-> IF trial_days > 0 THEN now + trial_days ELSE None]}

subscribe_to_plan(user_id, plan_code, billing_period) ==
    LET op == "subscribe_to_plan"
        req == <<plan_code, billing_period>>
    IN
    \E plan \in get_plan_by_code(plan_code) :
      IF plan = NoRow
      THEN /\ resp' = MkResp(op, user_id, req, "404", NoDetail)
           /\ UNCHANGED subscriptions
      ELSE IF billing_period \notin {"monthly", "yearly"}
      THEN /\ resp' = MkResp(op, user_id, req, "400", NoDetail)
           /\ UNCHANGED subscriptions
      ELSE
        \E price \in FirstOf({pp \in PlanPrices : /\ pp.plan_id = plan.id
                                                  /\ pp.billing_period = billing_period}) :
          IF price = NoRow
          THEN /\ resp' = MkResp(op, user_id, req, "404", NoDetail)
               /\ UNCHANGED subscriptions
          ELSE
            LET trial_days == IF price.price_cents > 0 THEN price.trial_days ELSE 0
            IN  /\ create_subscription(user_id, plan, billing_period, trial_days)
                /\ resp' = MkResp(op, user_id, req, "200",
                                  [plan_code |-> plan.code,
                                   billing_period |-> billing_period,
                                   status |-> "ACTIVE"])

SubscribeToPlan ==
    /\ \E user_id \in Users, plan_code \in RequestPlanCodes,
          billing_period \in RequestBillingPeriods :
          subscribe_to_plan(user_id, plan_code, billing_period)
    /\ UNCHANGED <<now, pricing_plans, plan_features, user_feature_usage>>
    /\ UNCHANGED nonQuotaVars

\* the same handler, for the monthly subscriptions of the quota specification
SubscribeMonthly ==
    /\ \E user_id \in QuotaUsers, plan_code \in {"free", "pro"} :
          subscribe_to_plan(user_id, plan_code, "monthly")
    /\ UNCHANGED <<now, pricing_plans, plan_features, user_feature_usage>>
    /\ UNCHANGED nonQuotaVars

(***************************************************************************)
(* GET /pricing/user/current-plan                                          *)
(***************************************************************************)
\* the bodies the route may return for a user
get_user_current_plan(user_id) ==
    { IF subscription # NoRow
      THEN [plan_code |-> plan.code,
            billing_period |-> subscription.billing_period,
            status |-> subscription.status]
      ELSE [plan_code |-> plan.code,
            billing_period |-> "monthly",
            status |-> "ACTIVE"] :
      plan \in get_user_plan(user_id),
      subscription \in get_user_subscription(user_id) }

GetUserCurrentPlan ==
    /\ \E user_id \in Users :
         \E body \in get_user_current_plan(user_id) :
            resp' = MkResp("get_user_current_plan", user_id, "none", "200", body)
    /\ UNCHANGED quotaVars
    /\ UNCHANGED nonQuotaVars

(***************************************************************************)
(* Pricing and quota specification                                         *)
(***************************************************************************)
QuotaStart ==
    /\ QuotaInit
    /\ InterviewIdle
    /\ AtsIdle
    /\ CvIdle
    /\ UsageIdle
    /\ AnswerIdle
    /\ VoiceIdle

QuotaNext ==
    \/ Tick
    \/ CheckAndIncrementUsage
    \/ CanUseFeature
    \/ GetUsageStats
    \/ ResetUsageForPeriod
    \/ SubscribeMonthly

QuotaSpec == QuotaStart /\ [][QuotaNext]_vars

(***************************************************************************)
(* Overlapping quota requests                                              *)
(***************************************************************************)
OverlapStart == QuotaStart

OverlapNext ==
    \/ UsageBegin
    \/ UsageCommit

OverlapSpec == OverlapStart /\ [][OverlapNext]_vars

(***************************************************************************)
(* Subscription specification: every subscribe request, and the plan       *)
(* report                                                                  *)
(***************************************************************************)
PlanNext ==
    \/ Tick
    \/ SubscribeToPlan
    \/ GetUserCurrentPlan

PlanStart ==
    /\ QuotaStart
    /\ plan_features[<<1, "cv_generate">>] = SeededFeature(1, "cv_generate")

PlanSpec == PlanStart /\ [][PlanNext]_vars

(***************************************************************************)
(* Plan resolution specification: get_user_plan applied to every pricing   *)
(* table and every subscription row the schema allows                      *)
(***************************************************************************)
SubscriptionStatuses == {"ACTIVE", "CANCELED", "EXPIRED", "TRIAL"}

\* pricing_plans tables: each of the two plans absent, active or inactive
PlanTables ==
    { T \in SUBSET { [id |-> p.id, code |-> p.code, is_active |-> a] :
                        p \in PricingPlans, a \in BOOLEAN } :
        \A p, q \in T : p.id = q.id => p = q }

\* subscriptions tables over a pricing table: at most one row per user
\* (user_id is unique), plan_id a foreign key into the pricing table
SubscriptionTables(plans) ==
    { S \in SUBSET { [user_id |-> u,
                      plan_id |-> p.id,
                      billing_period |-> "monthly",
                      status |-> st,
                      current_period_start |-> 0,
                      current_period_end |-> MonthlyDays,
                      trial_ends_at |-> None] :
                        u \in Users, p \in plans, st \in SubscriptionStatuses } :
        \A s, t \in S : s.user_id = t.user_id => s = t }

UserPlanStart ==
    /\ now = 0
    /\ pricing_plans \in PlanTables
    /\ subscriptions \in SubscriptionTables(pricing_plans)
    /\ plan_features = [k \in {1, 2} \X FeatureCodes |-> SeededFeature(k[1], k[2])]
    /\ user_feature_usage = EmptyBag
    /\ resp = MkResp("none", "none", "none", "none", NoDetail)
    /\ InterviewIdle
    /\ AtsIdle
    /\ CvIdle
    /\ UsageIdle
    /\ AnswerIdle
    /\ VoiceIdle

\* a call PlanService.get_user_plan(db, user_id)
GetUserPlan ==
    /\ \E user_id \in Users :
          IF get_user_plan(user_id) = {}
          THEN resp' = MkResp("get_user_plan", user_id, "none", "ValueError", NoRow)
          ELSE \E plan \in get_user_plan(user_id) :
                  resp' = MkResp("get_user_plan", user_id, "none", "plan", plan)
    /\ UNCHANGED quotaVars
    /\ UNCHANGED nonQuotaVars

UserPlanNext == GetUserPlan

UserPlanSpec == UserPlanStart /\ [][UserPlanNext]_vars

(***************************************************************************)
(* Interview sessions: routes/interview.py                                 *)
(***************************************************************************)
MaxQuestions == 2    \* largest num_questions / generated question list
MaxAsked == 2        \* cap on a conversational agent's questions_asked

NullSummary == [source |-> "null"]   \* summary_json IS NULL
NullJson == <<"null">>               \* transcript_json IS NULL

Scores == {75}                       \* overall_score values a summary carries
Roles == {"assistant", "user"}

\* the transcripts a voice-completion request may carry (entries by role)
RequestTranscripts ==
    { <<>>, <<"assistant", "user">> }

SessionIds == {1, 2}                 \* the sessions that may be started
QuestionIds == 0..(Cardinality(SessionIds) * MaxQuestions)

\* the question ids a request may carry: every stored question, and an id
\* that no question has
RequestQuestionIds == {q.id : q \in interview_questions} \cup {0}

SessionById(session_id) ==
    FirstOf({x \in interview_sessions : x.id = session_id})

NewSession(num_questions) ==
    [id |-> Cardinality(interview_sessions) + 1,
     num_questions |-> num_questions,
     status |-> "active",
     overall_score |-> None,
     summary_json |-> NullSummary,
     transcript_json |-> NullJson,
     completed_at |-> None]

UpdateSession(session, updated) ==
    interview_sessions' = (interview_sessions \ {session}) \cup {updated}

\* POST /interview/start: the session is committed first; `generated` is the
\* length of the question list the LLM service returned (0: storing the
\* questions failed and the request ended with a 500)
start_interview(num_questions, generated) ==
    LET session == NewSession(num_questions)
        first_id == Cardinality(interview_questions)
    IN  /\ session.id \in SessionIds
        /\ interview_sessions' = interview_sessions \cup {session}
        /\ interview_questions' =
              interview_questions \cup
              { [id |-> first_id + i, session_id |-> session.id, idx |-> i] :
                   i \in 1..generated }
        /\ resp' = MkResp("start_interview", session.id, num_questions,
                          IF generated = 0 THEN "500" ELSE "200", NoDetail)
        /\ UNCHANGED <<interview_answers, active_interviews>>

StartInterview ==
    /\ \E num_questions \in {1, MaxQuestions} :
         \E generated \in {0, num_questions} :
            start_interview(num_questions, generated)
    /\ UNCHANGED nonInterviewVars

\* (variant: the status of the session is not looked at)
session_not_active_never(session) == FALSE

\* "if session.status != 'active'"
session_not_active(session) == session.status # "active"

\* the question with this id, provided it belongs to the session
question_of_session(question_id, session_id) ==
    FirstOf({q \in interview_questions :
                q.id = question_id /\ q.session_id = session_id})

\* (variant: no earlier answer is ever found)
existing_answer_none(question_id) == {NoRow}

\* "existing_answer = ...filter(InterviewAnswer.question_id == ...).first()"
existing_answer(question_id) ==
    FirstOf({a \in BagToSet(interview_answers) : a.question_id = question_id})

\* POST /interview/answer
submit_answer(session_id, question_id) ==
    LET op == "submit_answer" IN
    \E session \in SessionById(session_id) :
      IF session = NoRow
      THEN /\ resp' = MkResp(op, session_id, question_id, "404", NoDetail)
           /\ UNCHANGED interview_answers
      ELSE IF session_not_active(session)
      THEN /\ resp' = MkResp(op, session_id, question_id, "400", NoDetail)
           /\ UNCHANGED interview_answers
      ELSE
        \E question \in question_of_session(question_id, session_id) :
          IF question = NoRow
          THEN /\ resp' = MkResp(op, session_id, question_id, "404", NoDetail)
               /\ UNCHANGED interview_answers
          ELSE
            \E existing \in existing_answer(question_id) :
              IF existing # NoRow
              THEN /\ resp' = MkResp(op, session_id, question_id, "400", NoDetail)
                   /\ UNCHANGED interview_answers
              ELSE /\ interview_answers' =
                        interview_answers (+)
                        SetToBag({[session_id |-> session_id,
                                   question_id |-> question_id]})
                   /\ resp' = MkResp(op, session_id, question_id, "200", NoDetail)

SubmitAnswer ==
    /\ \E session_id \in SessionIds, question_id \in RequestQuestionIds :
          submit_answer(session_id, question_id)
    /\ UNCHANGED <<interview_sessions, interview_questions, active_interviews>>
    /\ UNCHANGED nonInterviewVars

\* POST /interview/answer for requests that overlap: the three reads come
\* first, LLMService.evaluate_answer runs in between, and the INSERT is
\* committed afterwards; each request has its own database session
AnswerBegin ==
    /\ \E r \in AnswerRequests, session_id \in SessionIds,
          question_id \in RequestQuestionIds :
         LET op == "submit_answer" IN
         /\ answer_calls[r].pc = "idle"
         /\ \E session \in SessionById(session_id) :
              IF session = NoRow
              THEN /\ resp' = MkResp(op, session_id, question_id, "404", NoDetail)
                   /\ answer_calls' = [answer_calls EXCEPT ![r] = [pc |-> "done"]]
              ELSE IF session_not_active(session)
              THEN /\ resp' = MkResp(op, session_id, question_id, "400", NoDetail)
                   /\ answer_calls' = [answer_calls EXCEPT ![r] = [pc |-> "done"]]
              ELSE
                \E question \in question_of_session(question_id, session_id) :
                  IF question = NoRow
                  THEN /\ resp' = MkResp(op, session_id, question_id, "404", NoDetail)
                       /\ answer_calls' = [answer_calls EXCEPT ![r] = [pc |-> "done"]]
                  ELSE
                    \E existing \in existing_answer(question_id) :
                      IF existing # NoRow
                      THEN /\ resp' = MkResp(op, session_id, question_id, "400",
                                             NoDetail)
                           /\ answer_calls' =
                                 [answer_calls EXCEPT ![r] = [pc |-> "done"]]
                      ELSE /\ answer_calls' =
                                 [answer_calls EXCEPT
                                    ![r] = [pc |-> "evaluate",
                                            session_id |-> session_id,
                                            question_id |-> question_id]]
                           /\ UNCHANGED resp
    /\ UNCHANGED interviewVars
    /\ UNCHANGED <<quotaVars, atsVars, report_call, cvVars, usage_calls, voiceVars>>

\* "db.add(answer); db.commit()" and the response
AnswerCommit ==
    /\ \E r \in AnswerRequests :
         LET call == answer_calls[r] IN
         /\ call.pc = "evaluate"
         /\ interview_answers' =
               interview_answers (+)
               SetToBag({[session_id |-> call.session_id,
                          question_id |-> call.question_id]})
         /\ resp' = MkResp("submit_answer", call.session_id, call.question_id,
                           "200", NoDetail)
         /\ answer_calls' = [answer_calls EXCEPT ![r] = [pc |-> "done"]]
    /\ UNCHANGED <<interview_sessions, interview_questions, active_interviews>>
    /\ UNCHANGED <<quotaVars, atsVars, report_call, cvVars, usage_calls, voiceVars>>

AnswerOverlapStart == PlanStart

AnswerOverlapNext ==
    \/ StartInterview
    \/ AnswerBegin
    \/ AnswerCommit

AnswerOverlapSpec == AnswerOverlapStart /\ [][AnswerOverlapNext]_vars

\* len() of the two queries of finish_interview
QuestionsOf(session_id) ==
    {q \in interview_questions : q.session_id = session_id}

AnswersOf(session_id) ==
    [a \in {b \in BagToSet(interview_answers) : b.session_id = session_id}
        |-> interview_answers[a]]

\* (variant: one unanswered question is let through)
not_all_answered_off_by_one(session_id) ==
    BagCardinality(AnswersOf(session_id)) + 1 < Cardinality(QuestionsOf(session_id))

\* "if len(answers) < len(questions)"
not_all_answered(session_id) ==
    BagCardinality(AnswersOf(session_id)) < Cardinality(QuestionsOf(session_id))

\* POST /interview/finish.  InterviewSummary(**session.summary_json) raises
\* TypeError when summary_json is None, which the server answers with a 500.
finish_interview(session_id) ==
    LET op == "finish_interview" IN
    \E session \in SessionById(session_id) :
      IF session = NoRow
      THEN /\ resp' = MkResp(op, session_id, "none", "404", NullSummary)
           /\ UNCHANGED interview_sessions
      ELSE IF session.status = "completed"
      THEN /\ resp' = MkResp(op, session_id, "none",
                             IF session.summary_json = NullSummary
                             THEN "500" ELSE "200",
                             session.summary_json)
           /\ UNCHANGED interview_sessions
      ELSE IF not_all_answered(session_id)
      THEN /\ resp' = MkResp(op, session_id, "none", "400", NullSummary)
           /\ UNCHANGED interview_sessions
      ELSE
        \E score \in Scores :
          LET summary_data == [source |-> "summarize_session",
                               overall_score |-> score,
                               completion_status |-> "none"]
          IN  /\ UpdateSession(session,
                    [session EXCEPT !.status = "completed",
                                    !.overall_score = score,
                                    !.summary_json = summary_data,
                                    !.completed_at = now])
              /\ resp' = MkResp(op, session_id, "none", "200", summary_data)

FinishInterview ==
    /\ \E session_id \in SessionIds : finish_interview(session_id)
    /\ UNCHANGED <<interview_questions, interview_answers, active_interviews>>
    /\ UNCHANGED nonInterviewVars

(***************************************************************************)
(* Voice interviews: completion and report                                 *)
(***************************************************************************)
CountRole(transcript, role) ==
    Cardinality({i \in 1..Len(transcript) : transcript[i] = role})

\* "completed" if questions_asked >= session.num_questions else "partial"
completion_status(questions_asked, num_questions) ==
    IF questions_asked >= num_questions THEN "completed" ELSE "partial"

\* (variant: a completed session is summarised again)
completed_with_summary_never(session) == FALSE

\* "if session.status == 'completed' and session.summary_json"
completed_with_summary(session) ==
    session.status = "completed" /\ session.summary_json # NullSummary

\* POST /interview/voice-session/{session_id}/complete
complete_voice_interview(session_id, transcript, questions_asked) ==
    LET op == "complete_voice_interview" IN
    \E session \in SessionById(session_id) :
      IF session = NoRow
      THEN /\ resp' = MkResp(op, session_id, "none", "404", NullSummary)
           /\ UNCHANGED interview_sessions
      ELSE IF completed_with_summary(session)
      THEN /\ resp' = MkResp(op, session_id, "none", "200", session.summary_json)
           /\ UNCHANGED interview_sessions
      ELSE IF Len(transcript) = 0
      THEN /\ UpdateSession(session,
                 [session EXCEPT !.transcript_json = << >>,
                                 !.status = "in_progress"])
           /\ resp' = MkResp(op, session_id, "none", "200", NullSummary)
      ELSE
        \E score \in Scores :
          LET summary_data ==
                [source |-> "summarize_voice_interview",
                 overall_score |-> score,
                 completion_status |->
                    completion_status(questions_asked, session.num_questions)]
          IN  /\ UpdateSession(session,
                    [session EXCEPT !.transcript_json = transcript,
                                    !.status = "completed",
                                    !.overall_score = score,
                                    !.summary_json = summary_data,
                                    !.completed_at = now])
              /\ resp' = MkResp(op, session_id, "none", "200", summary_data)

CompleteVoiceInterview ==
    /\ \E session_id \in SessionIds, transcript \in RequestTranscripts,
          questions_asked \in {0, MaxQuestions} :
          complete_voice_interview(session_id, transcript, questions_asked)
    /\ UNCHANGED <<interview_questions, interview_answers, active_interviews>>
    /\ UNCHANGED nonInterviewVars

\* questions_asked as the report computes it from the stored transcript
report_questions_asked(transcript) ==
    LET assistant_messages == CountRole(transcript, "assistant")
        user_messages == CountRole(transcript, "user")
        halved == assistant_messages \div 2
    IN  IF Len(transcript) >= 2 /\ assistant_messages >= 1 /\ user_messages >= 1
        THEN IF halved > 1 THEN halved ELSE 1
        ELSE halved

\* GET /interview/session/{session_id}/report; the three checks of the retry
\* loop read the same committed row
get_or_generate_report(session_id) ==
    LET op == "get_or_generate_report" IN
    \E session \in SessionById(session_id) :
      IF session = NoRow
      THEN /\ resp' = MkResp(op, session_id, "none", "404", NullSummary)
           /\ UNCHANGED interview_sessions
      ELSE IF session.summary_json # NullSummary /\ session.status = "completed"
      THEN /\ resp' = MkResp(op, session_id, "completed", "200", session.summary_json)
           /\ UNCHANGED interview_sessions
      ELSE IF session.transcript_json = NullJson \/ Len(session.transcript_json) < 1
      THEN /\ resp' = MkResp(op, session_id, "in_progress", "200", NullSummary)
           /\ UNCHANGED interview_sessions
      ELSE
        \E score \in Scores :
          LET questions_asked == report_questions_asked(session.transcript_json)
              done == questions_asked >= session.num_questions
              summary_data ==
                [source |-> "summarize_voice_interview",
                 overall_score |-> score,
                 completion_status |->
                    completion_status(questions_asked, session.num_questions)]
              updated ==
                [session EXCEPT
                    !.summary_json = summary_data,
                    !.overall_score = score,
                    !.status = IF done THEN "completed" ELSE @,
                    !.completed_at = IF done THEN now ELSE @]
          IN  /\ UpdateSession(session, updated)
              /\ resp' = MkResp(op, session_id, updated.status, "200", summary_data)

GetOrGenerateReport ==
    /\ \E session_id \in SessionIds : get_or_generate_report(session_id)
    /\ UNCHANGED <<interview_questions, interview_answers, active_interviews>>
    /\ UNCHANGED nonInterviewVars

(***************************************************************************)
(* The report request step by step: the checks of its retry loop read the  *)
(* row as committed at that moment, and other requests run while it sleeps *)
(***************************************************************************)
max_retries == 3

NoCall == [pc |-> "idle"]

\* (variant: the loop sleeps and checks again after the last attempt)
retry_again_once_more(attempt) == attempt <= max_retries

\* "if attempt < max_retries: time.sleep(retry_delay)"
retry_again(attempt) == attempt < max_retries

\* "has_transcript = transcript_data and len(transcript_data) >= 1"
has_transcript(session) ==
    session.transcript_json # NullJson /\ Len(session.transcript_json) >= 1

\* the request arrives: 404, the stored report, or the retry loop is entered
ReportBegin ==
    /\ report_call = NoCall
    /\ \E session_id \in SessionIds :
         LET op == "get_or_generate_report" IN
         \E session \in SessionById(session_id) :
           IF session = NoRow
           THEN /\ resp' = MkResp(op, session_id, "none", "404", NullSummary)
                /\ UNCHANGED report_call
           ELSE IF session.summary_json # NullSummary /\ session.status = "completed"
           THEN /\ resp' = MkResp(op, session_id, "completed", "200",
                                  session.summary_json)
                /\ UNCHANGED report_call
           ELSE /\ report_call' = [pc |-> "check", session_id |-> session_id,
                                   attempt |-> 1, checks |-> 0, sleeps |-> 0]
                /\ resp' = MkResp(op, session_id, "pending", "none", NullSummary)
    /\ UNCHANGED interviewVars
    /\ UNCHANGED nonReportVars

\* one pass of the loop body: db.refresh(session), then the transcript test;
\* after the loop the report is generated or 'in_progress' is returned
ReportCheck ==
    /\ report_call.pc = "check"
    /\ LET op == "get_or_generate_report"
           session_id == report_call.session_id
       IN
       \E session \in SessionById(session_id) :
         IF has_transcript(session)
         THEN \E score \in Scores :
                LET questions_asked == report_questions_asked(session.transcript_json)
                    done == questions_asked >= session.num_questions
                    summary_data ==
                      [source |-> "summarize_voice_interview",
                       overall_score |-> score,
                       completion_status |->
                          completion_status(questions_asked, session.num_questions)]
                    updated ==
                      [session EXCEPT
                          !.summary_json = summary_data,
                          !.overall_score = score,
                          !.status = IF done THEN "completed" ELSE @,
                          !.completed_at = IF done THEN now ELSE @]
                IN  /\ UpdateSession(session, updated)
                    /\ resp' = MkResp(op, session_id, updated.status, "200",
                                      summary_data)
                    /\ report_call' = NoCall
         ELSE IF retry_again(report_call.attempt)
         THEN /\ report_call' = [report_call EXCEPT !.pc = "sleep",
                                                    !.checks = @ + 1]
              /\ UNCHANGED <<interview_sessions, resp>>
         ELSE /\ resp' = MkResp(op, session_id, "in_progress", "200", NullSummary)
              /\ report_call' = NoCall
              /\ UNCHANGED interview_sessions
    /\ UNCHANGED <<interview_questions, interview_answers, active_interviews>>
    /\ UNCHANGED nonReportVars

\* time.sleep(retry_delay) returns and the next attempt begins
ReportWake ==
    /\ report_call.pc = "sleep"
    /\ report_call' = [report_call EXCEPT !.pc = "check",
                                          !.attempt = @ + 1,
                                          !.sleeps = @ + 1]
    /\ UNCHANGED resp
    /\ UNCHANGED interviewVars
    /\ UNCHANGED nonReportVars

ReportStart == PlanStart

ReportNext ==
    \/ StartInterview
    \/ CompleteVoiceInterview
    \/ ReportBegin
    \/ ReportCheck
    \/ ReportWake

\* a request that has begun runs on: its handler neither blocks nor waits
\* for another request
ReportSpec ==
    /\ ReportStart
    /\ [][ReportNext]_vars
    /\ WF_vars(ReportCheck)
    /\ WF_vars(ReportWake)

(***************************************************************************)
(* Conversational interviews: routes/conversational_interview.py           *)
(***************************************************************************)
\* POST /interview/conversational/start
start_conversational_interview(num_questions) ==
    LET session == NewSession(num_questions)
        agent == [num_questions |-> num_questions, questions_asked |-> 0]
    IN  /\ session.id \in SessionIds
        /\ interview_sessions' = interview_sessions \cup {session}
        /\ active_interviews' =
              [k \in DOMAIN active_interviews \cup {session.id} |->
                  IF k = session.id THEN agent ELSE active_interviews[k]]
        /\ resp' = MkResp("start_conversational_interview", session.id,
                          num_questions, "200", NoDetail)
        /\ UNCHANGED <<interview_questions, interview_answers>>

StartConversationalInterview ==
    /\ \E num_questions \in {1, MaxQuestions} :
          start_conversational_interview(num_questions)
    /\ UNCHANGED nonInterviewVars

\* POST /interview/conversational/answer; process_answer adds 1 to
\* questions_asked and reports is_complete once it reaches num_questions
submit_conversational_answer(session_id) ==
    LET op == "submit_conversational_answer" IN
    IF session_id \notin DOMAIN active_interviews
    THEN /\ resp' = MkResp(op, session_id, "none", "404", NoDetail)
         /\ UNCHANGED <<interview_sessions, active_interviews>>
    ELSE
      LET agent == active_interviews[session_id]
          questions_asked == agent.questions_asked + 1
          is_complete == questions_asked >= agent.num_questions
      IN  /\ agent.questions_asked < MaxAsked
          /\ active_interviews' =
                [active_interviews EXCEPT
                    ![session_id].questions_asked = questions_asked]
          /\ \E session \in SessionById(session_id) :
                IF is_complete /\ session # NoRow
                THEN UpdateSession(session,
                        [session EXCEPT !.status = "completed",
                                        !.completed_at = now])
                ELSE UNCHANGED interview_sessions
          /\ resp' = MkResp(op, session_id, "none", "200",
                            [limit |-> agent.num_questions,
                             used |-> questions_asked])

SubmitConversationalAnswer ==
    /\ \E session_id \in SessionIds : submit_conversational_answer(session_id)
    /\ UNCHANGED <<interview_questions, interview_answers>>
    /\ UNCHANGED nonInterviewVars

\* (variant: the agent is kept when the interview is ended)
end_conversational_interview_keeps_agent(session_id) ==
    LET op == "end_conversational_interview" IN
    IF session_id \notin DOMAIN active_interviews
    THEN /\ resp' = MkResp(op, session_id, "none", "404", NoDetail)
         /\ UNCHANGED active_interviews
    ELSE /\ UNCHANGED active_interviews
         /\ resp' = MkResp(op, session_id, "none", "200", NoDetail)

\* POST /interview/conversational/end
end_conversational_interview(session_id) ==
    LET op == "end_conversational_interview" IN
    IF session_id \notin DOMAIN active_interviews
    THEN /\ resp' = MkResp(op, session_id, "none", "404", NoDetail)
         /\ UNCHANGED active_interviews
    ELSE /\ active_interviews' =
              [k \in DOMAIN active_interviews \ {session_id} |->
                  active_interviews[k]]
         /\ resp' = MkResp(op, session_id, "none", "200", NoDetail)

EndConversationalInterview ==
    /\ \E session_id \in SessionIds : end_conversational_interview(session_id)
    /\ UNCHANGED <<interview_sessions, interview_questions, interview_answers>>
    /\ UNCHANGED nonInterviewVars

\* GET /interview/conversational/summary/{session_id}
get_conversation_summary(session_id) ==
    LET op == "get_conversation_summary" IN
    IF session_id \notin DOMAIN active_interviews
    THEN resp' = MkResp(op, session_id, "none", "404", NoDetail)
    ELSE resp' = MkResp(op, session_id, "none", "200",
                        [limit |-> active_interviews[session_id].num_questions,
                         used |-> active_interviews[session_id].questions_asked])

GetConversationSummary ==
    /\ \E session_id \in SessionIds : get_conversation_summary(session_id)
    /\ UNCHANGED interviewVars
    /\ UNCHANGED nonInterviewVars

(***************************************************************************)
(* Interview specification                                                 *)
(***************************************************************************)
InterviewStart == PlanStart

InterviewNext ==
    \/ StartInterview
    \/ SubmitAnswer
    \/ FinishInterview
    \/ CompleteVoiceInterview
    \/ GetOrGenerateReport
    \/ StartConversationalInterview
    \/ SubmitConversationalAnswer
    \/ EndConversationalInterview
    \/ GetConversationSummary

InterviewSpec == InterviewStart /\ [][InterviewNext]_vars

(***************************************************************************)
(* Applicant tracking: routes/ats.py                                       *)
(***************************************************************************)
MaxApplications == 2   \* applications that may be stored

JobIds == {1, 2}                         \* the jobs that may be created
CandidateEmails == {"a@x", "b@x"}        \* candidate_email of an application
Uploads == {"none", "stored", "refused"} \* what becomes of resume_file

\* POST /ats/jobs by a recruiter: the job is created OPEN and active
create_job(user) ==
    LET job == [id |-> Cardinality(jobs) + 1,
                created_by_user_id |-> user,
                status |-> "OPEN",
                is_active |-> TRUE]
    IN  /\ job.id \in JobIds
        /\ jobs' = jobs \cup {job}
        /\ resp' = MkResp("create_job", job.id, user, "200", NoDetail)

CreateJob ==
    /\ \E user \in Users : create_job(user)
    /\ UNCHANGED <<candidates, applications, screenings>>
    /\ UNCHANGED nonAtsVars

\* "Job.id == job_id, Job.status == JobStatus.OPEN, Job.is_active == True"
\* of get_job_public
public_job(job_id) ==
    FirstOf({j \in jobs : j.id = job_id /\ j.status = "OPEN" /\ j.is_active})

\* GET /ats/jobs/{job_id}/public
get_job_public(job_id) ==
    \E job \in public_job(job_id) :
       resp' = MkResp("get_job_public", job_id, "none",
                      IF job = NoRow THEN "404" ELSE "200", NoDetail)

GetJobPublic ==
    /\ \E job_id \in JobIds : get_job_public(job_id)
    /\ UNCHANGED atsVars
    /\ UNCHANGED nonAtsVars

\* PATCH /ats/jobs/{job_id}/toggle-active by a recruiter
toggle_job_active(job_id, user) ==
    \E job \in FirstOf({j \in jobs : j.id = job_id /\ j.created_by_user_id = user}) :
       IF job = NoRow
       THEN /\ resp' = MkResp("toggle_job_active", job_id, user, "404", NoDetail)
            /\ UNCHANGED jobs
       ELSE /\ jobs' = (jobs \ {job}) \cup {[job EXCEPT !.is_active = ~job.is_active]}
            /\ resp' = MkResp("toggle_job_active", job_id, user, "200", NoDetail)

ToggleJobActive ==
    /\ \E job_id \in JobIds, user \in Users : toggle_job_active(job_id, user)
    /\ UNCHANGED <<candidates, applications, screenings>>
    /\ UNCHANGED nonAtsVars

\* (variant: a deactivated job still accepts applications)
accepting_job_any_activity(job_id) ==
    FirstOf({j \in jobs : j.id = job_id /\ j.status = "OPEN"})

\* "Job.id == job_id, Job.status == JobStatus.OPEN, Job.is_active == True"
\* of apply_to_job
accepting_job(job_id) ==
    FirstOf({j \in jobs : j.id = job_id /\ j.status = "OPEN" /\ j.is_active})

\* POST /ats/jobs/{job_id}/apply; a refused resume_file ends the request
\* (503, 400 or 500) before any row is written
apply_to_job(job_id, candidate_email, upload) ==
    LET op == "apply_to_job" IN
    \E job \in accepting_job(job_id) :
       IF job = NoRow
       THEN /\ resp' = MkResp(op, job_id, candidate_email, "404", NoDetail)
            /\ UNCHANGED <<candidates, applications, screenings>>
       ELSE IF upload = "refused"
       THEN /\ resp' = MkResp(op, job_id, candidate_email, "503", NoDetail)
            /\ UNCHANGED <<candidates, applications, screenings>>
       ELSE
         LET application == [id |-> Cardinality(applications) + 1,
                             job_id |-> job_id,
                             candidate |-> candidate_email]
         IN  /\ Cardinality(applications) < MaxApplications
             /\ candidates' = candidates \cup {candidate_email}
             /\ applications' = applications \cup {application}
             /\ screenings' = screenings \cup {[application_id |-> application.id]}
             /\ resp' = MkResp(op, job_id, candidate_email, "200", NoDetail)

ApplyToJob ==
    /\ \E job_id \in JobIds, candidate_email \in CandidateEmails, upload \in Uploads :
          apply_to_job(job_id, candidate_email, upload)
    /\ UNCHANGED jobs
    /\ UNCHANGED nonAtsVars

AtsStart == PlanStart

AtsNext ==
    \/ CreateJob
    \/ GetJobPublic
    \/ ToggleJobActive
    \/ ApplyToJob

AtsSpec == AtsStart /\ [][AtsNext]_vars

(***************************************************************************)
(* CV analysis: routes/cv.py.  upload_cv commits after each stage, so the  *)
(* record is visible to other requests between its steps.                  *)
(***************************************************************************)
MaxUploads == 3

CvIds == 1..MaxUploads

CVAnalysisStatus == {"pending", "processing", "completed", "failed"}

CvById(cv_id) == FirstOf({ c \in cv_analyses : c.id = cv_id })

\* the upload request is over; `created` counts the ids handed out so far
UploadDone == [pc |-> "idle", id |-> 0, created |-> upload_call.created]

\* (variant: a failure is reported to the client but not written to the row)
mark_failed_unrecorded(cv_analysis, message) == cv_analysis

\* "cv_analysis.status = CVAnalysisStatus.FAILED; cv_analysis.error_message = ..."
mark_failed(cv_analysis, message) ==
    [cv_analysis EXCEPT !.status = "failed", !.error_message = message]

UpdateCv(old, new) ==
    cv_analyses' = (cv_analyses \ {old}) \cup {new}

\* POST /cv/upload up to the first commit: validation, then the pending row
UploadBegin ==
    /\ upload_call.pc = "idle"
    /\ upload_call.created < MaxUploads
    /\ \E valid \in BOOLEAN :
         IF ~valid
         THEN /\ resp' = MkResp("upload_cv", 0, "none", "400", NoRow)
              /\ UNCHANGED <<cv_analyses, upload_call>>
         ELSE LET id == upload_call.created + 1
                  cv_analysis == [id |-> id,
                                  status |-> "pending",
                                  file_path |-> "null",
                                  error_message |-> "null",
                                  completed_at |-> None]
              IN  /\ cv_analyses' = cv_analyses \cup {cv_analysis}
                  /\ upload_call' = [pc |-> "save", id |-> id, created |-> id]
                  /\ resp' = MkResp("upload_cv", id, "pending", "none", NoRow)
    /\ UNCHANGED nonCvVars

\* the file is written and file_path committed, or the copy fails
UploadSave ==
    /\ upload_call.pc = "save"
    /\ \E cv_analysis \in CvById(upload_call.id) :
         IF cv_analysis = NoRow
         THEN /\ resp' = MkResp("upload_cv", upload_call.id, "none", "500", NoRow)
              /\ upload_call' = UploadDone
              /\ UNCHANGED cv_analyses
         ELSE \E saved \in BOOLEAN :
                IF saved
                THEN /\ UpdateCv(cv_analysis,
                                 [cv_analysis EXCEPT !.file_path = "stored"])
                     /\ upload_call' = [upload_call EXCEPT !.pc = "process"]
                     /\ UNCHANGED resp
                ELSE /\ UpdateCv(cv_analysis,
                                 mark_failed(cv_analysis, "File upload failed"))
                     /\ upload_call' = UploadDone
                     /\ resp' = MkResp("upload_cv", upload_call.id, "failed",
                                       "500", NoRow)
    /\ UNCHANGED nonCvVars

\* "cv_analysis.status = CVAnalysisStatus.PROCESSING; db.commit()"
UploadProcess ==
    /\ upload_call.pc = "process"
    /\ \E cv_analysis \in CvById(upload_call.id) :
         IF cv_analysis = NoRow
         THEN /\ resp' = MkResp("upload_cv", upload_call.id, "none", "500", NoRow)
              /\ upload_call' = UploadDone
              /\ UNCHANGED cv_analyses
         ELSE /\ UpdateCv(cv_analysis, [cv_analysis EXCEPT !.status = "processing"])
              /\ upload_call' = [upload_call EXCEPT !.pc = "analyse"]
              /\ UNCHANGED resp
    /\ UNCHANGED nonCvVars

\* text extraction, parsing and analysis, then the final commit
UploadAnalyse ==
    /\ upload_call.pc = "analyse"
    /\ \E cv_analysis \in CvById(upload_call.id) :
         IF cv_analysis = NoRow
         THEN /\ resp' = MkResp("upload_cv", upload_call.id, "none", "500", NoRow)
              /\ upload_call' = UploadDone
              /\ UNCHANGED cv_analyses
         ELSE \E analysed \in BOOLEAN :
                IF analysed
                THEN /\ UpdateCv(cv_analysis,
                                 [cv_analysis EXCEPT !.status = "completed",
                                                     !.completed_at = now])
                     /\ resp' = MkResp("upload_cv", upload_call.id, "completed",
                                       "200", NoRow)
                     /\ upload_call' = UploadDone
                ELSE /\ UpdateCv(cv_analysis,
                                 mark_failed(cv_analysis, "CV analysis failed"))
                     /\ resp' = MkResp("upload_cv", upload_call.id, "failed",
                                       "500", NoRow)
                     /\ upload_call' = UploadDone
    /\ UNCHANGED nonCvVars

\* DELETE /cv/{cv_id}
DeleteCvAnalysis ==
    /\ \E cv_id \in CvIds :
         \E cv_analysis \in CvById(cv_id) :
           IF cv_analysis = NoRow
           THEN /\ resp' = MkResp("delete_cv_analysis", cv_id, "none", "404", NoRow)
                /\ UNCHANGED cv_analyses
           ELSE /\ cv_analyses' = cv_analyses \ {cv_analysis}
                /\ resp' = MkResp("delete_cv_analysis", cv_id, "none", "200", NoRow)
    /\ UNCHANGED upload_call
    /\ UNCHANGED nonCvVars

CvStart == PlanStart

CvNext ==
    \/ UploadBegin
    \/ UploadSave
    \/ UploadProcess
    \/ UploadAnalyse
    \/ DeleteCvAnalysis

CvSpec == CvStart /\ [][CvNext]_vars

(***************************************************************************)
(* The voice agent: livekit-voice-agent/interview_agent.py.  One job of    *)
(* interview_agent_handler with its locals, its event handlers and the     *)
(* three tasks it creates (the periodic save, save_and_disconnect and      *)
(* save_on_disconnect).  A task is suspended at an await; the steps below  *)
(* run it from one await to the next.  A transcript POST carries the       *)
(* entries recorded when it is sent and is handled by                      *)
(* complete_voice_interview some time later.                               *)
(***************************************************************************)
MaxEntries == 3

DefaultQuestions == 5

save_max_retries == 3

\* "while not interview_complete and not transcript_saved"
periodic_continues(agent) ==
    ~agent.interview_complete /\ ~agent.transcript_saved

\* where the periodic task is after one pass of its loop body
AfterPeriodicPass(agent) ==
    IF periodic_continues(agent) THEN "sleep" ELSE "ended"

VoicePost(task, agent) ==
    [task |-> task, transcript |-> agent.transcript,
     questions_asked |-> agent.questions_asked]

\* the job starts: session data is fetched (5 questions when the session is
\* not found), the greeting is recorded unless it failed unexpectedly, and
\* the periodic task is created and goes to sleep
AgentJoin ==
    /\ ~voice_agent.joined
    /\ \E session_id \in SessionIds, greeted \in BOOLEAN :
         \E session_data \in SessionById(session_id) :
           voice_agent' =
             [joined |-> TRUE,
              session_id |-> session_id,
              num_questions |-> IF session_data # NoRow
                                THEN session_data.num_questions
                                ELSE DefaultQuestions,
              transcript |-> IF greeted THEN <<"assistant">> ELSE << >>,
              questions_asked |-> 0,
              interview_complete |-> FALSE,
              transcript_saved |-> FALSE,
              room |-> "connected",
              candidate |-> TRUE,
              periodic |-> "sleep",
              closing |-> "none",
              leaving |-> "none",
              attempt |-> 0]
    /\ UNCHANGED <<voice_posts, resp>>
    /\ UNCHANGED <<quotaVars, interviewVars, atsVars, report_call, cvVars,
                   usage_calls, answer_calls>>

\* event user_speech_committed
OnUserSpeech ==
    /\ voice_agent.joined
    /\ voice_agent.room = "connected"
    /\ voice_agent.candidate
    /\ Len(voice_agent.transcript) < MaxEntries
    /\ voice_agent' = [voice_agent EXCEPT !.transcript = Append(@, "user")]
    /\ UNCHANGED <<voice_posts, resp>>
    /\ UNCHANGED <<quotaVars, interviewVars, atsVars, report_call, cvVars,
                   usage_calls, answer_calls>>

\* event agent_speech_committed.  The handler declares only
\* interview_complete nonlocal, so its last line "transcript_saved = True"
\* binds a local and the job's transcript_saved keeps its value.
OnAgentSpeech ==
    /\ voice_agent.joined
    /\ voice_agent.room = "connected"
    /\ Len(voice_agent.transcript) < MaxEntries
    /\ voice_agent.closing \notin {"start", "post", "sleep"}
    /\ \E is_closing \in BOOLEAN :
         LET transcript == Append(voice_agent.transcript, "assistant")
             questions_asked == CountRole(transcript, "assistant") \div 2
             has_reached_question_limit ==
                questions_asked >= voice_agent.num_questions
         IN  voice_agent' =
               [voice_agent EXCEPT
                  !.transcript = transcript,
                  !.questions_asked = questions_asked,
                  !.interview_complete =
                     IF is_closing \/ has_reached_question_limit THEN TRUE ELSE @,
                  !.closing =
                     IF is_closing \/ has_reached_question_limit THEN "start" ELSE @]
    /\ UNCHANGED <<voice_posts, resp>>
    /\ UNCHANGED <<quotaVars, interviewVars, atsVars, report_call, cvVars,
                   usage_calls, answer_calls>>

\* the periodic task wakes from asyncio.sleep(30): it POSTs a non-empty
\* transcript, otherwise it goes round the loop
PeriodicWake ==
    /\ voice_agent.joined
    /\ voice_agent.periodic = "sleep"
    /\ IF Len(voice_agent.transcript) > 0
       THEN /\ voice_posts' = voice_posts \cup {VoicePost("periodic", voice_agent)}
            /\ voice_agent' = [voice_agent EXCEPT !.periodic = "post"]
       ELSE /\ voice_agent' = [voice_agent EXCEPT
                                  !.periodic = AfterPeriodicPass(voice_agent)]
            /\ UNCHANGED voice_posts
    /\ UNCHANGED resp
    /\ UNCHANGED <<quotaVars, interviewVars, atsVars, report_call, cvVars,
                   usage_calls, answer_calls>>

\* save_and_disconnect starts and sends the final save
ClosingSend ==
    /\ voice_agent.joined
    /\ voice_agent.closing = "start"
    /\ voice_posts' = voice_posts \cup {VoicePost("closing", voice_agent)}
    /\ voice_agent' = [voice_agent EXCEPT !.closing = "post"]
    /\ UNCHANGED resp
    /\ UNCHANGED <<quotaVars, interviewVars, atsVars, report_call, cvVars,
                   usage_calls, answer_calls>>

\* "await asyncio.sleep(3); await ctx.room.disconnect()"
ClosingDisconnect ==
    /\ voice_agent.joined
    /\ voice_agent.closing = "sleep"
    /\ voice_agent' = [voice_agent EXCEPT !.closing = "done",
                                          !.room = "disconnected"]
    /\ UNCHANGED <<voice_posts, resp>>
    /\ UNCHANGED <<quotaVars, interviewVars, atsVars, report_call, cvVars,
                   usage_calls, answer_calls>>

\* event participant_disconnected for the candidate: the periodic task is
\* cancelled where it is suspended and save_on_disconnect is created
OnParticipantDisconnected ==
    /\ voice_agent.joined
    /\ voice_agent.room = "connected"
    /\ voice_agent.candidate
    /\ voice_agent' =
          [voice_agent EXCEPT
             !.candidate = FALSE,
             !.periodic = IF @ \in {"sleep", "post"} THEN "cancelled" ELSE @,
             !.leaving = "start",
             !.attempt = 1]
    /\ UNCHANGED <<voice_posts, resp>>
    /\ UNCHANGED <<quotaVars, interviewVars, atsVars, report_call, cvVars,
                   usage_calls, answer_calls>>

\* save_on_disconnect makes its next attempt; save_interview_transcript
\* returns at once, without a POST, when the transcript is empty
LeavingSend ==
    /\ voice_agent.joined
    /\ voice_agent.leaving \in {"start", "sleep"}
    /\ IF Len(voice_agent.transcript) = 0
       THEN /\ voice_agent' = [voice_agent EXCEPT !.leaving = "done",
                                                  !.transcript_saved = TRUE]
            /\ UNCHANGED voice_posts
       ELSE /\ voice_posts' = voice_posts \cup {VoicePost("leaving", voice_agent)}
            /\ voice_agent' = [voice_agent EXCEPT !.leaving = "post"]
    /\ UNCHANGED resp
    /\ UNCHANGED <<quotaVars, interviewVars, atsVars, report_call, cvVars,
                   usage_calls, answer_calls>>

\* the task that sent the POST goes on with the response
AfterResponse(agent, task, status) ==
    IF task = "periodic"
    THEN IF agent.periodic = "post"
         THEN [agent EXCEPT !.periodic = AfterPeriodicPass(agent)]
         ELSE agent
    ELSE IF task = "closing"
    THEN [agent EXCEPT !.closing = IF status = "200" THEN "sleep" ELSE "failed"]
    ELSE IF status = "200"
    THEN [agent EXCEPT !.leaving = "done", !.transcript_saved = TRUE]
    ELSE IF agent.attempt < save_max_retries
    THEN [agent EXCEPT !.leaving = "sleep", !.attempt = @ + 1]
    ELSE IF agent.attempt = save_max_retries
    THEN [agent EXCEPT !.leaving = "start", !.attempt = @ + 1]
    ELSE [agent EXCEPT !.leaving = "done"]

\* the backend handles one transcript POST and its response reaches the task
VoicePostHandled ==
    /\ voice_agent.joined
    /\ \E post \in voice_posts :
         /\ complete_voice_interview(voice_agent.session_id, post.transcript,
                                     post.questions_asked)
         /\ voice_posts' = voice_posts \ {post}
         /\ voice_agent' = AfterResponse(voice_agent, post.task, resp'.result)
    /\ UNCHANGED <<interview_questions, interview_answers, active_interviews>>
    /\ UNCHANGED <<quotaVars, atsVars, report_call, cvVars, usage_calls,
                   answer_calls>>

VoiceStart == PlanStart

VoiceNext ==
    \/ StartInterview
    \/ AgentJoin
    \/ OnUserSpeech
    \/ OnAgentSpeech
    \/ OnParticipantDisconnected
    \/ PeriodicWake
    \/ ClosingSend
    \/ ClosingDisconnect
    \/ LeavingSend
    \/ VoicePostHandled

\* timers fire, created tasks run, and the backend answers every request
VoiceSpec ==
    /\ VoiceStart
    /\ [][VoiceNext]_vars
    /\ WF_vars(PeriodicWake)
    /\ WF_vars(ClosingSend)
    /\ WF_vars(ClosingDisconnect)
    /\ WF_vars(LeavingSend)
    /\ WF_vars(VoicePostHandled)

(***************************************************************************)
(* Properties of the quota service                                         *)
(***************************************************************************)
\* the plan_features row that applies to a user: the row of the plan of the
\* user's ACTIVE subscription, else of the free plan (id 1)
PlanIdOf(u) ==
    IF \E sub \in subscriptions : sub.user_id = u /\ sub.status = "ACTIVE"
    THEN (CHOOSE sub \in subscriptions :
             sub.user_id = u /\ sub.status = "ACTIVE").plan_id
    ELSE 1

ConfigOf(u, f) == plan_features[<<PlanIdOf(u), f>>]

HasQuota(u, f) == ConfigOf(u, f) # NoRow /\ ConfigOf(u, f).monthly_quota > 0

\* the period the user is billed in: that of the ACTIVE subscription, else
\* the calendar month of `now`
PeriodOf(u) ==
    IF \E sub \in subscriptions : sub.user_id = u /\ sub.status = "ACTIVE"
    THEN LET sub == CHOOSE sub \in subscriptions :
                       sub.user_id = u /\ sub.status = "ACTIVE"
         IN  <<sub.current_period_start, sub.current_period_end>>
    ELSE <<MonthStart(now), MonthStart(now) + DaysInMonth>>

\* the used_count that is compared against the quota of (u, f)
UsedCount(u, f) ==
    LET rows == {r \in BagToSet(user_feature_usage) :
                    /\ r.user_id = u /\ r.plan_id = PlanIdOf(u)
                    /\ r.feature_code = f
                    /\ <<r.period_start, r.period_end>> = PeriodOf(u)}
    IN  IF rows = {} THEN 0 ELSE (CHOOSE r \in rows : TRUE).used_count

\* this step is a call check_and_increment_usage(u, f)
StepIsCheck(u, f) ==
    /\ resp'.op = "check_and_increment_usage"
    /\ resp'.who = u
    /\ resp'.arg = f
    /\ resp' # resp \/ user_feature_usage' # user_feature_usage

\* C1: with monthly_quota > 0 and hard_cap, a call made when used_count is
\* already >= monthly_quota raises QuotaExceededError and changes no usage
\* row, and no usage row of such a feature ever counts more than the quota.
C1_HardCapBlocks ==
    /\ [](\A r \in BagToSet(user_feature_usage) :
             LET cfg == plan_features[<<r.plan_id, r.feature_code>>]
             IN  (cfg # NoRow /\ cfg.monthly_quota > 0 /\ cfg.hard_cap)
                    => r.used_count <= cfg.monthly_quota)
    /\ [][\A u \in Users, f \in FeatureCodes :
            (/\ StepIsCheck(u, f)
             /\ HasQuota(u, f)
             /\ ConfigOf(u, f).hard_cap
             /\ UsedCount(u, f) >= ConfigOf(u, f).monthly_quota)
            => /\ resp'.result = "QuotaExceededError"
               /\ user_feature_usage' = user_feature_usage]_vars

C1_Witness ==
    /\ resp.op = "check_and_increment_usage"
    /\ resp.result = "QuotaExceededError"
    /\ resp.detail.limit > 0
    /\ resp.detail.used = resp.detail.limit

\* C2: with monthly_quota > 0 and a soft cap, every call returns True and
\* adds exactly 1 to the used_count of the current period, also at or above
\* the quota.
C2_SoftCapAllows ==
    [][\A u \in Users, f \in FeatureCodes :
         (/\ StepIsCheck(u, f)
          /\ HasQuota(u, f)
          /\ ~ConfigOf(u, f).hard_cap)
         => /\ resp'.result = "True"
            /\ UsedCount(u, f)' = UsedCount(u, f) + 1]_vars

C2_Witness ==
    /\ resp.op = "check_and_increment_usage"
    /\ resp.result = "True"
    /\ resp.detail.limit > 0
    /\ resp.detail.used >= resp.detail.limit

\* C3: with monthly_quota = 0 every call raises QuotaExceededError with
\* limit 0 and used 0, whatever hard_cap is, and changes no usage row.
C3_DisabledRaises ==
    [][\A u \in Users, f \in FeatureCodes :
         (/\ StepIsCheck(u, f)
          /\ ConfigOf(u, f) # NoRow
          /\ ConfigOf(u, f).monthly_quota = 0)
         => /\ resp'.result = "QuotaExceededError"
            /\ resp'.detail = [limit |-> 0, used |-> 0]
            /\ user_feature_usage' = user_feature_usage]_vars

C3_Witness ==
    /\ resp.op = "check_and_increment_usage"
    /\ resp.result = "QuotaExceededError"
    /\ resp.detail.limit = 0
    /\ ~ConfigOf(resp.who, resp.arg).hard_cap

\* C4: with no plan_features row, or a row whose monthly_quota is NULL, every
\* call returns True and changes no usage row.
C4_UnlimitedNoRow ==
    [][\A u \in Users, f \in FeatureCodes :
         (/\ StepIsCheck(u, f)
          /\ (ConfigOf(u, f) = NoRow \/ ConfigOf(u, f).monthly_quota = None))
         => /\ resp'.result = "True"
            /\ user_feature_usage' = user_feature_usage]_vars

C4_Witness ==
    /\ resp.op = "check_and_increment_usage"
    /\ resp.result = "True"
    /\ ConfigOf(resp.who, resp.arg) # NoRow
    /\ ConfigOf(resp.who, resp.arg).monthly_quota = None
    /\ user_feature_usage # EmptyBag

\* C5: when the clock passes the end of the billing period in which a count
\* was recorded, the count compared against the quota is 0 again.
C5_CountsResetAtPeriodEnd ==
    [][\A u \in Users, f \in FeatureCodes :
         (/\ UsedCount(u, f) > 0
          /\ now < PeriodOf(u)[2]
          /\ now' >= PeriodOf(u)[2])
         => UsedCount(u, f)' = 0]_vars

\* this step is a call can_use_feature(u, f)
StepIsCanUse(u, f) ==
    /\ resp'.op = "can_use_feature"
    /\ resp'.who = u
    /\ resp'.arg = f
    /\ resp' # resp \/ user_feature_usage' # user_feature_usage

\* C13: can_use_feature changes no usage row, and a call
\* check_and_increment_usage made in the state can_use_feature answered in
\* returns True exactly when that answer was True.
C13_CanUseMatchesCheck ==
    [][\A u \in Users, f \in FeatureCodes :
         /\ StepIsCanUse(u, f) => user_feature_usage' = user_feature_usage
         /\ (/\ resp.op = "can_use_feature"
             /\ resp.who = u
             /\ resp.arg = f
             /\ resp.detail.at = now
             /\ StepIsCheck(u, f))
            => (resp.result = "True" <=> resp'.result = "True")]_vars

\* can_use_feature has refused a feature whose quota is used up
C13_Witness ==
    /\ resp.op = "can_use_feature"
    /\ resp.result = "False"
    /\ resp.detail.at = now
    /\ HasQuota(resp.who, resp.arg)
    /\ UsedCount(resp.who, resp.arg) >= ConfigOf(resp.who, resp.arg).monthly_quota

(***************************************************************************)
(* Properties of subscriptions                                             *)
(***************************************************************************)
SubscriptionsOf(u) == {sub \in subscriptions : sub.user_id = u}

\* this step is a successful POST /pricing/user/subscribe of user u
StepIsSubscribe(u) ==
    /\ resp'.op = "subscribe_to_plan"
    /\ resp'.who = u
    /\ resp'.result = "200"
    /\ resp' # resp \/ subscriptions' # subscriptions

\* C6: a user has at most one Subscription row; right after a successful
\* subscribe the user has exactly one row, it is ACTIVE, and current-plan
\* reports the requested plan code and billing period; the row stays, and the
\* report changes only by a later successful subscribe of the same user.
C6_OneActiveSubscription ==
    /\ [](/\ \A u \in Users : Cardinality(SubscriptionsOf(u)) <= 1
          /\ (resp.op = "subscribe_to_plan" /\ resp.result = "200")
                => /\ Cardinality(SubscriptionsOf(resp.who)) = 1
                   /\ \A sub \in SubscriptionsOf(resp.who) : sub.status = "ACTIVE"
                   /\ \A body \in get_user_current_plan(resp.who) :
                         /\ body.plan_code = resp.arg[1]
                         /\ body.billing_period = resp.arg[2]
                   /\ get_user_current_plan(resp.who) # {})
    /\ [][\A u \in Users :
            /\ SubscriptionsOf(u) # {}
                  => /\ Cardinality(SubscriptionsOf(u)') = 1
                     /\ \A sub \in SubscriptionsOf(u)' : sub.status = "ACTIVE"
            /\ get_user_current_plan(u)' # get_user_current_plan(u)
                  => StepIsSubscribe(u)]_vars

C6_Witness ==
    /\ resp.op = "get_user_current_plan"
    /\ resp.detail.plan_code = "pro"
    /\ resp.detail.billing_period = "yearly"
    /\ \E sub \in SubscriptionsOf(resp.who) :
          sub.current_period_start > 0 /\ sub.billing_period = "yearly"
    /\ \E u \in Users \ {resp.who} :
          \E sub \in SubscriptionsOf(u) : sub.plan_id = 1

(***************************************************************************)
(* Properties of interview sessions                                        *)
(***************************************************************************)
StatusOf(session_id) ==
    IF \E x \in interview_sessions : x.id = session_id
    THEN (CHOOSE x \in interview_sessions : x.id = session_id).status
    ELSE "absent"

\* how many interview_answers rows a question has
AnswerCount(question_id) ==
    BagCardinality([a \in {b \in BagToSet(interview_answers) :
                              b.question_id = question_id}
                      |-> interview_answers[a]])

SessionOfQuestion(question_id, session_id) ==
    \E q \in interview_questions : q.id = question_id /\ q.session_id = session_id

AllAnswered(session_id) ==
    \A q \in interview_questions :
       q.session_id = session_id => AnswerCount(q.id) >= 1

\* this step is a request POST /interview/answer (session_id, question_id)
StepIsSubmit(session_id, question_id) ==
    /\ resp'.op = "submit_answer"
    /\ resp'.who = session_id
    /\ resp'.arg = question_id
    /\ resp' # resp \/ interview_answers' # interview_answers

\* this step is a request POST /interview/finish (session_id)
StepIsFinish(session_id) ==
    /\ resp'.op = "finish_interview"
    /\ resp'.who = session_id
    /\ resp' # resp \/ interview_sessions' # interview_sessions

\* C7: submit_answer for a question of the session that already has an
\* answer returns 400 and adds no row; no question has two answers.
C7_OneAnswerPerQuestion ==
    /\ [](\A q \in interview_questions : AnswerCount(q.id) <= 1)
    /\ [][\A sid \in SessionIds, qid \in QuestionIds :
            (/\ StepIsSubmit(sid, qid)
             /\ SessionOfQuestion(qid, sid)
             /\ AnswerCount(qid) >= 1)
            => /\ resp'.result = "400"
               /\ interview_answers' = interview_answers]_vars

C7_Witness ==
    /\ resp.op = "submit_answer"
    /\ resp.result = "400"
    /\ StatusOf(resp.who) = "active"
    /\ SessionOfQuestion(resp.arg, resp.who)
    /\ AnswerCount(resp.arg) = 1

\* C8: finish_interview on a session that is not yet completed marks it
\* completed only if every question of the session has an answer; otherwise
\* it returns 400 and leaves the session row as it was.
C8_FinishNeedsAllAnswers ==
    [][\A sid \in SessionIds :
         (/\ StepIsFinish(sid)
          /\ StatusOf(sid) \notin {"absent", "completed"})
         => IF AllAnswered(sid)
            THEN /\ resp'.result = "200"
                 /\ StatusOf(sid)' = "completed"
            ELSE /\ resp'.result = "400"
                 /\ interview_sessions' = interview_sessions]_vars

C8_Witness ==
    /\ resp.op = "finish_interview"
    /\ resp.result = "400"
    /\ StatusOf(resp.who) = "active"
    /\ \E q \in interview_questions :
          q.session_id = resp.who /\ AnswerCount(q.id) = 1
    /\ \E q \in interview_questions :
          q.session_id = resp.who /\ AnswerCount(q.id) = 0

\* C9: an answer is stored only for an active session and a question of
\* that session; a session that is no longer active never becomes active
\* again, every submit_answer for it is rejected and its answers stay as
\* they are.
C9_AnswersOnlyWhileActive ==
    [][/\ \A sid \in SessionIds, qid \in QuestionIds :
            (StepIsSubmit(sid, qid) /\ interview_answers' # interview_answers)
            => /\ StatusOf(sid) = "active"
               /\ SessionOfQuestion(qid, sid)
               /\ resp'.result = "200"
               /\ interview_answers' =
                     interview_answers (+)
                     SetToBag({[session_id |-> sid, question_id |-> qid]})
       /\ \A sid \in SessionIds :
            StatusOf(sid) \notin {"absent", "active"}
            => /\ StatusOf(sid)' \notin {"absent", "active"}
               /\ AnswersOf(sid)' = AnswersOf(sid)
               /\ \A qid \in QuestionIds :
                     StepIsSubmit(sid, qid) => resp'.result \in {"400", "404"}]_vars

C9_Witness ==
    /\ resp.op = "submit_answer"
    /\ resp.result = "400"
    /\ StatusOf(resp.who) = "completed"
    /\ SessionOfQuestion(resp.arg, resp.who)
    /\ AnswerCount(resp.arg) = 0

\* C10: finish_interview on a session whose status is completed returns the
\* stored summary with a 200 and changes nothing.
C10_FinishCompletedReturnsSummary ==
    [][\A sid \in SessionIds :
         (StepIsFinish(sid) /\ StatusOf(sid) = "completed")
         => /\ resp'.result = "200"
            /\ resp'.detail # NullSummary
            /\ \E x \in interview_sessions :
                  x.id = sid /\ resp'.detail = x.summary_json
            /\ UNCHANGED interviewVars]_vars

(***************************************************************************)
(* Properties of voice completion and of the session status                *)
(***************************************************************************)
SummaryOf(session_id) ==
    IF \E x \in interview_sessions : x.id = session_id
    THEN (CHOOSE x \in interview_sessions : x.id = session_id).summary_json
    ELSE NullSummary

\* this step is a request POST /interview/voice-session/{session_id}/complete
StepIsVoice(session_id) ==
    /\ resp'.op = "complete_voice_interview"
    /\ resp'.who = session_id
    /\ resp' # resp \/ interview_sessions' # interview_sessions

\* C11: for a session that is completed and has a summary, every
\* complete_voice_interview call, whatever transcript and questions_asked it
\* carries, returns the stored summary and leaves the session row as it was.
C11_VoiceCompletionIdempotent ==
    [][\A sid \in SessionIds :
         (/\ StepIsVoice(sid)
          /\ StatusOf(sid) = "completed"
          /\ SummaryOf(sid) # NullSummary)
         => /\ resp'.result = "200"
            /\ resp'.detail = SummaryOf(sid)
            /\ interview_sessions' = interview_sessions]_vars

C11_Witness ==
    /\ resp.op = "complete_voice_interview"
    /\ resp.result = "200"
    /\ StatusOf(resp.who) = "completed"
    /\ resp.detail = SummaryOf(resp.who)
    /\ resp.detail.source = "summarize_session"

\* C12: the status of every interview session is 'active' or 'completed'.
C12_StatusActiveOrCompleted ==
    \A x \in interview_sessions : x.status \in {"active", "completed"}

(***************************************************************************)
(* Properties of plan resolution                                           *)
(***************************************************************************)
ActiveSubscriptionsOf(u) ==
    {s \in subscriptions : s.user_id = u /\ s.status = "ACTIVE"}

ActiveFreePlans == {p \in pricing_plans : p.code = "free" /\ p.is_active}

\* C14: get_user_plan returns a plan or raises ValueError, never None; with
\* an ACTIVE subscription it returns the plan of that subscription; without
\* one (no subscription, or one that is CANCELED, EXPIRED or TRIAL) it returns
\* the active plan with code 'free'; it raises ValueError only when there is
\* no active 'free' plan.
C14_UserPlanResolution ==
    resp.op = "get_user_plan" =>
       /\ resp.result \in {"plan", "ValueError"}
       /\ resp.result = "plan" => resp.detail \in pricing_plans
       /\ ActiveSubscriptionsOf(resp.who) # {}
             => /\ resp.result = "plan"
                /\ \E s \in ActiveSubscriptionsOf(resp.who) :
                      resp.detail.id = s.plan_id
       /\ (ActiveSubscriptionsOf(resp.who) = {} /\ ActiveFreePlans # {})
             => /\ resp.result = "plan"
                /\ resp.detail \in ActiveFreePlans
       /\ resp.result = "ValueError" => ActiveFreePlans = {}

\* a user whose subscription to the pro plan is on TRIAL gets the free plan
C14_Witness ==
    /\ resp.op = "get_user_plan"
    /\ resp.result = "plan"
    /\ resp.detail.code = "free"
    /\ \E s \in subscriptions :
          s.user_id = resp.who /\ s.status = "TRIAL" /\ s.plan_id = 2

(***************************************************************************)
(* Properties of applicant tracking                                        *)
(***************************************************************************)
\* the job exists, its status is OPEN and is_active is true
OpenAndActive(job_id) ==
    \E j \in jobs : j.id = job_id /\ j.status = "OPEN" /\ j.is_active

IsActive(job_id) == \E j \in jobs : j.id = job_id /\ j.is_active

StepIsAts(op, job_id) ==
    /\ resp'.op = op
    /\ resp'.who = job_id
    /\ resp' # resp \/ atsVars' # atsVars

\* C15: the public GET answers 200 and apply stores rows only for a job that
\* is OPEN and active; for any other job both answer 404 and no Candidate,
\* Application or Screening row is written; is_active is changed only by a
\* successful toggle-active, which inverts it, so a deactivated job stays
\* hidden until the next toggle and is shown again after it.
C15_InactiveJobHidden ==
    [][\A j \in JobIds :
         /\ (StepIsAts("get_job_public", j) \/ StepIsAts("apply_to_job", j))
               => IF OpenAndActive(j)
                  THEN resp'.result # "404"
                  ELSE /\ resp'.result = "404"
                       /\ UNCHANGED <<candidates, applications, screenings>>
         /\ StepIsAts("get_job_public", j) /\ OpenAndActive(j)
               => resp'.result = "200"
         /\ <<candidates, applications, screenings>>'
                  # <<candidates, applications, screenings>>
               => \E k \in JobIds :
                     StepIsAts("apply_to_job", k) /\ OpenAndActive(k)
         /\ (StepIsAts("toggle_job_active", j) /\ resp'.result = "200")
               => IsActive(j)' = ~IsActive(j)
         /\ IsActive(j)' # IsActive(j)
               => \/ StepIsAts("toggle_job_active", j) /\ resp'.result = "200"
                  \/ StepIsAts("create_job", j)]_vars

\* an application was refused for a deactivated job that had taken one before
C15_Witness ==
    /\ resp.op = "apply_to_job"
    /\ resp.result = "404"
    /\ \E j \in jobs : j.id = resp.who /\ j.status = "OPEN" /\ ~j.is_active
    /\ \E a \in applications : a.job_id = resp.who

(***************************************************************************)
(* Properties of the conversational agents                                 *)
(***************************************************************************)
ConversationalOps ==
    {"submit_conversational_answer", "end_conversational_interview",
     "get_conversation_summary"}

\* this step is a request `op` of the conversational routes for session_id
StepIsConversational(op, session_id) ==
    /\ resp'.op = op
    /\ resp'.who = session_id
    /\ resp' # resp \/ interviewVars' # interviewVars

\* C16: /answer, /end and /summary for a session id that has no agent return
\* 404 and leave active_interviews as it is; an agent appears only by a
\* successful /start of its session and is gone after a successful /end; no
\* request changes the agent of another session.
C16_AgentBetweenStartAndEnd ==
    [][\A sid \in SessionIds :
         /\ \A op \in ConversationalOps :
               StepIsConversational(op, sid) =>
                  /\ sid \notin DOMAIN active_interviews
                        => /\ resp'.result = "404"
                           /\ active_interviews' = active_interviews
                  /\ sid \in DOMAIN active_interviews => resp'.result = "200"
                  /\ \A other \in DOMAIN active_interviews \ {sid} :
                        /\ other \in DOMAIN active_interviews'
                        /\ active_interviews'[other] = active_interviews[other]
         /\ (sid \notin DOMAIN active_interviews /\ sid \in DOMAIN active_interviews')
               => /\ resp'.op = "start_conversational_interview"
                  /\ resp'.who = sid
                  /\ resp'.result = "200"
         /\ (sid \in DOMAIN active_interviews /\ sid \notin DOMAIN active_interviews')
               => StepIsConversational("end_conversational_interview", sid)
         /\ (/\ StepIsConversational("end_conversational_interview", sid)
             /\ sid \in DOMAIN active_interviews)
               => sid \notin DOMAIN active_interviews']_vars

\* an /answer was refused for a conversational session that was ended, while
\* another session still has its agent
C16_Witness ==
    /\ resp.op = "submit_conversational_answer"
    /\ resp.result = "404"
    /\ resp.who \notin DOMAIN active_interviews
    /\ StatusOf(resp.who) = "completed"
    /\ SummaryOf(resp.who) = NullSummary
    /\ DOMAIN active_interviews # {}

(***************************************************************************)
(* Properties of the report's retry loop                                   *)
(***************************************************************************)
\* the report request in progress ends with this step
ReportEnds == report_call # NoCall /\ report_call' = NoCall

\* C17: a report request for a session that is not completed makes at most
\* max_retries checks, sleeps only after a check that found nothing and only
\* when another check follows, and ends; when the last check finds no
\* transcript either it returns 'in_progress' without a summary and leaves
\* the session row as it was.
C17_ReportRetriesBounded ==
    /\ [](report_call # NoCall =>
             /\ report_call.attempt \in 1..max_retries
             /\ report_call.sleeps = report_call.attempt - 1
             /\ report_call.pc = "check" => report_call.checks = report_call.attempt - 1
             /\ report_call.pc = "sleep" =>
                   /\ report_call.checks = report_call.attempt
                   /\ report_call.attempt < max_retries)
    /\ [][ReportEnds =>
            /\ resp'.op = "get_or_generate_report"
            /\ resp'.who = report_call.session_id
            /\ report_call.checks + 1 <= max_retries
            /\ resp'.arg = "in_progress" =>
                  /\ report_call.checks + 1 = max_retries
                  /\ resp'.detail = NullSummary
                  /\ interview_sessions' = interview_sessions
            /\ (\A x \in interview_sessions :
                   x.id = report_call.session_id => ~has_transcript(x))
                  => resp'.arg = "in_progress"]_vars
    /\ (report_call # NoCall ~> report_call = NoCall)

\* 'in_progress' was returned for a session whose transcript is stored empty
C17_Witness ==
    /\ resp.op = "get_or_generate_report"
    /\ resp.arg = "in_progress"
    /\ report_call = NoCall
    /\ \E x \in interview_sessions :
          x.id = resp.who /\ x.transcript_json = << >> /\ x.status = "in_progress"

(***************************************************************************)
(* Properties of CV analysis records                                       *)
(***************************************************************************)
\* position of a status on the path pending, processing, then completed or failed
StatusRank(status) ==
    CASE status = "pending" -> 0
      [] status = "processing" -> 1
      [] OTHER -> 2

\* upload_cv answers the client with this step
UploadResponds == upload_call.pc # "idle" /\ upload_call'.pc = "idle"

\* C18: the status of a CVAnalysis record never moves backwards on the path
\* pending, processing, completed-or-failed, and a completed or failed record
\* keeps its status; when upload_cv responds, the record it created (if it
\* still exists) is completed with completed_at set or failed with
\* error_message set.
C18_CvStatusForwardOnly ==
    /\ [](\A c \in cv_analyses : c.status \in CVAnalysisStatus)
    /\ [][/\ \A c \in cv_analyses, d \in cv_analyses' :
               c.id = d.id =>
                  /\ StatusRank(c.status) <= StatusRank(d.status)
                  /\ c.status \in {"completed", "failed"} => d.status = c.status
          /\ UploadResponds =>
               \A d \in cv_analyses' :
                  d.id = upload_call.id =>
                     \/ d.status = "completed" /\ d.completed_at # None
                     \/ d.status = "failed" /\ d.error_message # "null"]_vars

\* upload_cv has just answered 500 for a record that is stored as failed,
\* next to an earlier record that completed
C18_Witness ==
    /\ upload_call.pc = "idle"
    /\ resp.op = "upload_cv" /\ resp.result = "500"
    /\ \E c \in cv_analyses :
          c.id = resp.who /\ c.status = "failed" /\ c.error_message # "null"
    /\ \E c \in cv_analyses : c.status = "completed" /\ c.completed_at # None

(***************************************************************************)
(* Properties of overlapping quota requests                                *)
(***************************************************************************)
\* the feature row a usage row is counted against
ConfigOfRow(row) == get_plan_feature(row.plan_id, row.feature_code)

\* the requests that returned True for the key of a usage row
GrantedFor(row) ==
    { r \in Requests :
        /\ usage_calls[r].pc = "done"
        /\ usage_calls[r].result = "True"
        /\ usage_calls[r].user_id = row.user_id
        /\ usage_calls[r].plan_id = row.plan_id
        /\ usage_calls[r].feature_code = row.feature_code
        /\ usage_calls[r].period = <<row.period_start, row.period_end>> }

\* C19: however the requests overlap, no usage row of a hard-capped feature
\* with a positive quota holds a used_count above monthly_quota.
C19_CountWithinQuotaUnderOverlap ==
    \A row \in BagToSet(user_feature_usage) :
       (/\ ConfigOfRow(row) # NoRow
        /\ ConfigOfRow(row).monthly_quota > 0
        /\ ConfigOfRow(row).hard_cap)
       => row.used_count <= ConfigOfRow(row).monthly_quota

\* two requests read the same count, both returned True, and the row of the
\* hard-capped feature stands at its quota
C19_Witness ==
    \E row \in BagToSet(user_feature_usage) :
       /\ ConfigOfRow(row) # NoRow
       /\ ConfigOfRow(row).hard_cap
       /\ row.used_count = ConfigOfRow(row).monthly_quota
       /\ \E r1, r2 \in GrantedFor(row) :
             /\ r1 # r2
             /\ usage_calls[r1].read_count = usage_calls[r2].read_count

\* C20: once no request is in progress, every key that was counted has
\* exactly one usage row, and its used_count is the number of requests that
\* returned True for the key.
C20_OneRowCountsEveryGrant ==
    (\A r \in Requests : usage_calls[r].pc # "commit") =>
       \A row \in BagToSet(user_feature_usage) :
          /\ UsageRows(row.user_id, row.plan_id, row.feature_code,
                       <<row.period_start, row.period_end>>) = {row}
          /\ row.used_count = Cardinality(GrantedFor(row))

IsPrefix(s, t) ==
    Len(s) <= Len(t) /\ \A i \in 1..Len(s) : s[i] = t[i]

FinalSaveTasks == {"closing", "leaving"}

\* this step is the backend answering `post` with 200
StepAccepts(post) ==
    /\ post \in voice_posts
    /\ post \notin voice_posts'
    /\ resp'.op = "complete_voice_interview"
    /\ resp'.result = "200"

\* C22: when the backend accepts a final save (sent on detected completion
\* or on the candidate's disconnect), the session's transcript_json then
\* holds every entry of the transcript that save carried.
C22_FinalSaveStoresWholeTranscript ==
    [][\A post \in voice_posts :
          (StepAccepts(post) /\ post.task \in FinalSaveTasks)
          => \E x \in interview_sessions' :
                /\ x.id = voice_agent.session_id
                /\ IsPrefix(post.transcript, x.transcript_json)]_vars

\* C23: once interview_complete is true it stays true, and the agent then
\* eventually disconnects from the room.
C23_CompleteLeadsToDisconnect ==
    /\ [][(voice_agent.joined /\ voice_agent.interview_complete)
            => voice_agent'.interview_complete]_vars
    /\ ((voice_agent.joined /\ voice_agent.interview_complete)
          ~> (voice_agent.joined /\ voice_agent.room = "disconnected"))

\* C24: the periodic loop sends no transcript POST once completion has been
\* detected, nor once the candidate has left and the task was cancelled.
C24_NoPeriodicPostAfterEnd ==
    [][(\E post \in voice_posts' \ voice_posts : post.task = "periodic")
          => /\ ~voice_agent.interview_complete
             /\ ~(~voice_agent.candidate /\ voice_agent.periodic = "cancelled")]_vars

====
